---- MODULE Spec2Model ----
(***************************************************************************)
(* Model of maestro/termoutput.py: OutputManager (a block of terminal      *)
(* lines updated concurrently under one lock) and OutputFormatter (the     *)
(* committed / pending label of one line).                                 *)
(*                                                                         *)
(* A Python string is a sequence of one-character strings; the control     *)
(* characters are written "ESC", "CR" and "LF".  Every sys.stdout.write    *)
(* is one raw write appended to the sink.                                  *)
(***************************************************************************)
EXTENDS Integers, Sequences, FiniteSets

\* ------------------------------------------------------------- bounds
MaxLines == 3
MaxCalls == 3
MaxRounds == 2

\* ------------------------------------------------------------ threads
Main == 0
Workers == {1, 2}
Threads == {Main} \cup Workers
Free == -1

\* ------------------------------------------------------------ strings
ESC == "ESC"
CR == "CR"
LF == "LF"

\* Python's None as a string argument, and as the pos argument of _print.
None == <<"<None>">>
NonePos == -1

Prefixes == {None, <<>>, <<"a">>}
Suffixes == {None, <<>>, <<"x">>}
ConcPrefixes == {<<"a">>}
ConcSuffixes == {<<"x">>}
Positions == 0..MaxLines

\* Python truthiness of an optional string: None and '' are false.
Truthy(s) == s # None /\ s # <<>>

\* Python truthiness of the pos argument: None and 0 are false.
PosTruthy(p) == p # NonePos /\ p # 0

Digit(d) == <<"0", "1", "2", "3", "4", "5", "6", "7", "8", "9">>[d + 1]

\* str(n) for a natural number, as '{}'.format(n) prints it.
RECURSIVE Str(_)
Str(n) == IF n < 10 THEN <<Digit(n)>> ELSE Str(n \div 10) \o <<Digit(n % 10)>>

\* '{}'.format(s) for an optional string: None prints as the word None.
Format(s) == IF s = None THEN <<"N", "o", "n", "e">> ELSE s

\* '\n' * n
RECURSIVE Newlines(_)
Newlines(n) == IF n <= 0 THEN <<>> ELSE <<LF>> \o Newlines(n - 1)

\* '\033[{}B'.format(pos)
DownSeq(pos) == <<ESC, "[">> \o Str(pos) \o <<"B">>

\* UpSeq with the final byte of DownSeq: the cursor moves down again.
UpSeqDown(pos) == <<ESC, "[">> \o Str(pos) \o <<"B">>

\* '\033[{}A'.format(pos)
UpSeq(pos) == <<ESC, "[">> \o Str(pos) \o <<"A">>

\* TextSeq without the clear to the end of the line.
TextSeqNoClear(s) == <<CR>> \o Format(s) \o <<CR>>

\* '\r{}\033[K\r'.format(s)
TextSeq(s) == <<CR>> \o Format(s) \o <<ESC, "[", "K", CR>>

\* StartText with one blank line too few for the rows it moves back up.
StartTextOneLess(n) == Newlines(n - 1) \o <<ESC, "[">> \o Str(n) \o <<"A">>

\* The argument start() passes to _print: '{}\033[{}A'.format('\n' * lines, lines)
StartText(n) == Newlines(n) \o <<ESC, "[">> \o Str(n) \o <<"A">>

\* EndText moving the cursor up instead of down.
EndTextUp(n) == <<ESC, "[">> \o Str(n) \o <<"A">>

\* The argument end() passes to _print: '\033[{}B'.format(lines)
EndText(n) == <<ESC, "[">> \o Str(n) \o <<"B">>

\* ----------------------------------------------------------- terminal
\* The terminal that reads the stream: a line feed moves the cursor one row
\* down, CSI n A moves it n rows up and CSI n B n rows down, a parameter 0
\* counting as 1 (ECMA-48 CUU / CUD).  Rows are offsets from the row the
\* cursor was on when the OutputManager was constructed.
IsDigit(c) == c \in {"0", "1", "2", "3", "4", "5", "6", "7", "8", "9"}

DigitVal(c) == CHOOSE d \in 0..9 : Digit(d) = c

RECURSIVE DigitCount(_, _)
DigitCount(s, i) ==
    IF i <= Len(s) /\ IsDigit(s[i]) THEN 1 + DigitCount(s, i + 1) ELSE 0

RECURSIVE NumVal(_, _, _)
NumVal(s, i, k) ==
    IF k = 0 THEN 0 ELSE NumVal(s, i, k - 1) * 10 + DigitVal(s[i + k - 1])

Rows(n) == IF n = 0 THEN 1 ELSE n

RECURSIVE RowDelta(_)
RowDelta(s) ==
    IF s = <<>> THEN 0
    ELSE IF Head(s) = LF THEN 1 + RowDelta(Tail(s))
    ELSE IF Head(s) = ESC /\ Len(s) >= 2 /\ s[2] = "["
    THEN LET k == DigitCount(s, 3)
             n == NumVal(s, 3, k)
             f == IF 3 + k <= Len(s) THEN s[3 + k] ELSE "?"
             d == IF f = "A" THEN 0 - Rows(n)
                  ELSE IF f = "B" THEN Rows(n) ELSE 0
         IN  d + RowDelta(SubSeq(s, 4 + k, Len(s)))
    ELSE RowDelta(Tail(s))

\* The characters shown on row r of the screen.
RowOf(scr, r) == IF r \in DOMAIN scr THEN scr[r] ELSE <<>>

SetRow(scr, r, c) ==
    [x \in (DOMAIN scr) \cup {r} |-> IF x = r THEN c ELSE scr[x]]

\* Character ch printed at column col (counted from 0) of a row showing c.
PutChar(c, col, ch) ==
    [i \in 1..(IF Len(c) > col + 1 THEN Len(c) ELSE col + 1) |->
        IF i = col + 1 THEN ch ELSE IF i <= Len(c) THEN c[i] ELSE " "]

\* The screen after the terminal has read s with the cursor on (row, col): a
\* carriage return moves to column 0, a line feed one row down, CSI K erases
\* from the cursor to the end of the row, CSI n A / CSI n B move up / down,
\* and any other character is shown at the cursor, which moves right.
RECURSIVE Paint(_, _, _, _)
Paint(scr, row, col, s) ==
    IF s = <<>> THEN scr
    ELSE IF Head(s) = CR THEN Paint(scr, row, 0, Tail(s))
    ELSE IF Head(s) = LF THEN Paint(scr, row + 1, col, Tail(s))
    ELSE IF Head(s) = ESC /\ Len(s) >= 2 /\ s[2] = "["
    THEN LET k == DigitCount(s, 3)
             n == NumVal(s, 3, k)
             f == IF 3 + k <= Len(s) THEN s[3 + k] ELSE "?"
             rest == SubSeq(s, 4 + k, Len(s))
         IN  IF f = "K"
             THEN Paint(SetRow(scr, row,
                               SubSeq(RowOf(scr, row), 1,
                                      IF col < Len(RowOf(scr, row))
                                      THEN col ELSE Len(RowOf(scr, row)))),
                        row, col, rest)
             ELSE IF f = "A" THEN Paint(scr, row - Rows(n), col, rest)
             ELSE IF f = "B" THEN Paint(scr, row + Rows(n), col, rest)
             ELSE Paint(scr, row, col, rest)
    ELSE Paint(SetRow(scr, row, PutChar(RowOf(scr, row), col, Head(s))),
               row, col + 1, Tail(s))

\* -------------------------------------------------------------- state
VARIABLES
    lines,       \* OutputManager._lines
    formatters,  \* OutputManager._formatters: pos -> the worker holding the formatter (0: none)
    lock,        \* OutputManager._lock: the thread holding it, or Free
    fmt,         \* per worker, its OutputFormatter: exists, pos (bound in the printer), prefix, committed
    pc,          \* per thread, its place inside _print, or "idle"
    call,        \* per thread, the arguments (s, pos) of its current or last _print call, and
                 \* whether that call raised
    phase,       \* the main thread's place in the life cycle: new, starting, started, ending, ended
    sink,        \* sys.stdout: the raw writes in order
    units,       \* number of lock acquisitions so far
    cursor,      \* terminal: the cursor's row
    screen,      \* terminal: row -> the characters shown on it (rows never written are absent)
    home,        \* terminal: the cursor's row when start() returned
    hist,        \* per worker, its last formatter call: op, arg, committed before, texts passed to the
                 \* printer; and the call before it: op, arg, committed before, whether it raised
    ncalls       \* per worker, number of formatter calls made

vars == <<lines, formatters, lock, fmt, pc, call, phase, sink, units, cursor,
          screen, home, hist, ncalls>>

NoFormatter == [exists |-> FALSE, pos |-> 0, prefix |-> None, committed |-> None]
NoCall == [s |-> None, pos |-> NonePos, n |-> 0, acq |-> 0, raised |-> FALSE]
NoHist == [op |-> "none", arg |-> None, before |-> None, renders |-> <<>>,
           prevop |-> "none", prevarg |-> None, prevbefore |-> None,
           prevraised |-> FALSE]

\* OutputManager.__init__(lines)
Init ==
    /\ lines \in 0..MaxLines
    /\ formatters = [p \in Positions |-> 0]
    /\ lock = Free
    /\ fmt = [w \in Workers |-> NoFormatter]
    /\ pc = [t \in Threads |-> "idle"]
    /\ call = [t \in Threads |-> NoCall]
    /\ phase = "new"
    /\ sink = <<>>
    /\ units = 0
    /\ cursor = 0
    /\ screen = <<>>
    /\ home = 0
    /\ hist = [w \in Workers |-> NoHist]
    /\ ncalls = [w \in Workers |-> 0]

\* ------------------------------------------------------ OutputManager
\* Entering _print(s, pos): the thread goes on to acquire the lock.
\* n numbers the thread's calls; acq is set when the lock is acquired, raised
\* when the call ends with an exception.
EnterPrint(t, s, pos, n) ==
    /\ pc[t] = "idle"
    /\ pc' = [pc EXCEPT ![t] = "acquire"]
    /\ call' = [call EXCEPT ![t] = [s |-> s, pos |-> pos, n |-> n, acq |-> 0,
                                    raised |-> FALSE]]

\* start(): self._print('{}\033[{}A'.format('\n' * self._lines, self._lines))
Start ==
    /\ phase = "new"
    /\ EnterPrint(Main, StartText(lines), NonePos, 1)
    /\ phase' = "starting"
    /\ UNCHANGED <<lines, formatters, lock, fmt, sink, units, cursor, screen, home,
                   hist, ncalls>>

\* end(): self._print('\033[{}B'.format(self._lines))
End ==
    /\ phase = "started"
    /\ EnterPrint(Main, EndText(lines), NonePos, 2)
    /\ phase' = "ending"
    /\ UNCHANGED <<lines, formatters, lock, fmt, sink, units, cursor, screen, home,
                   hist, ncalls>>

\* GetFormatter with the position shared by all printers: the formatters
\* issued before are bound to the new position too.
GetFormatterRebind(w, pos, prefix) ==
    /\ pc[Main] = "idle"
    /\ ~fmt[w].exists
    /\ fmt' = [u \in Workers |->
                 IF u = w
                 THEN [exists |-> TRUE, pos |-> pos, prefix |-> prefix,
                       committed |-> prefix]
                 ELSE IF fmt[u].exists THEN [fmt[u] EXCEPT !.pos = pos]
                 ELSE fmt[u]]
    /\ formatters' = [formatters EXCEPT ![pos] = w]
    /\ UNCHANGED <<lines, lock, pc, call, phase, sink, units, cursor, screen, home,
                   hist, ncalls>>

\* get_formatter(pos, prefix), called by the main thread for worker w.
GetFormatter(w, pos, prefix) ==
    /\ pc[Main] = "idle"
    /\ ~fmt[w].exists
    /\ fmt' = [fmt EXCEPT ![w] = [exists |-> TRUE, pos |-> pos,
                                  prefix |-> prefix, committed |-> prefix]]
    /\ formatters' = [formatters EXCEPT ![pos] = w]
    /\ UNCHANGED <<lines, lock, pc, call, phase, sink, units, cursor, screen, home,
                   hist, ncalls>>

\* Acquire as a lock that never blocks: the thread enters whoever holds it.
AcquireNoLock(t) ==
    /\ pc[t] = "acquire"
    /\ lock' = t
    /\ units' = units + 1
    /\ call' = [call EXCEPT ![t].acq = units + 1]
    /\ pc' = [pc EXCEPT ![t] = IF PosTruthy(call[t].pos) THEN "down" ELSE "text"]
    /\ UNCHANGED <<lines, formatters, fmt, phase, sink, cursor, screen, home, hist,
                   ncalls>>

\* with self._lock: (entry)
Acquire(t) ==
    /\ pc[t] = "acquire"
    /\ lock = Free
    /\ lock' = t
    /\ units' = units + 1
    /\ call' = [call EXCEPT ![t].acq = units + 1]
    /\ pc' = [pc EXCEPT ![t] = IF PosTruthy(call[t].pos) THEN "down" ELSE "text"]
    /\ UNCHANGED <<lines, formatters, fmt, phase, sink, cursor, screen, home, hist,
                   ncalls>>

\* The block is reserved: start() has returned and end() has written nothing.
Reserved == phase = "started" \/ (phase = "ending" /\ pc[Main] = "acquire")

\* One sys.stdout.write(data) by thread t.  The sink notes who wrote, in which
\* of its calls, under which acquisition, who held the lock, and the row the
\* cursor was on.
RawWrite(t, kind, data) ==
    /\ sink' = Append(sink, [by |-> t, n |-> call[t].n, acq |-> call[t].acq,
                             kind |-> kind, row |-> cursor, held |-> lock,
                             reserved |-> Reserved, data |-> data])
    /\ cursor' = cursor + RowDelta(data)
    /\ screen' = Paint(screen, cursor, 0, data)

\* if pos: sys.stdout.write('\033[{}B'.format(pos))
WriteDown(t) ==
    /\ pc[t] = "down"
    /\ RawWrite(t, "down", DownSeq(call[t].pos))
    /\ pc' = [pc EXCEPT ![t] = "text"]
    /\ UNCHANGED <<lines, formatters, lock, fmt, call, phase, units, home,
                   hist, ncalls>>

\* WriteText with the lock held around the text only: released before the
\* cursor moves back up.
WriteTextUnlock(t) ==
    /\ pc[t] = "text"
    /\ RawWrite(t, "text", TextSeq(call[t].s))
    /\ lock' = Free
    /\ pc' = [pc EXCEPT ![t] = IF PosTruthy(call[t].pos) THEN "up" ELSE "flush"]
    /\ UNCHANGED <<lines, formatters, fmt, call, phase, units, home, hist,
                   ncalls>>

\* sys.stdout.write('\r{}\033[K\r'.format(s))
WriteText(t) ==
    /\ pc[t] = "text"
    /\ RawWrite(t, "text", TextSeq(call[t].s))
    /\ pc' = [pc EXCEPT ![t] = IF PosTruthy(call[t].pos) THEN "up" ELSE "flush"]
    /\ UNCHANGED <<lines, formatters, lock, fmt, call, phase, units, home,
                   hist, ncalls>>

\* if pos: sys.stdout.write('\033[{}A'.format(pos))
WriteUp(t) ==
    /\ pc[t] = "up"
    /\ RawWrite(t, "up", UpSeq(call[t].pos))
    /\ pc' = [pc EXCEPT ![t] = "flush"]
    /\ UNCHANGED <<lines, formatters, lock, fmt, call, phase, units, home,
                   hist, ncalls>>

\* sys.stdout.flush(), the end of the with block, and the return to the caller.
Release(t) ==
    /\ pc[t] = "flush"
    /\ lock' = Free
    /\ pc' = [pc EXCEPT ![t] = "idle"]
    /\ phase' = IF t # Main THEN phase
                ELSE IF phase = "starting" THEN "started" ELSE "ended"
    /\ home' = IF t = Main /\ phase = "starting" THEN cursor ELSE home
    /\ UNCHANGED <<lines, formatters, fmt, call, sink, units, cursor, screen, hist,
                   ncalls>>

\* Fail undoing the call's change of the committed text.
FailRollsBack(t) ==
    /\ pc[t] \in {"down", "text", "up", "flush"}
    /\ lock' = Free
    /\ pc' = [pc EXCEPT ![t] = "idle"]
    /\ call' = [call EXCEPT ![t].raised = TRUE]
    /\ phase' = IF t # Main THEN phase
                ELSE IF phase = "starting" THEN "started" ELSE "ended"
    /\ fmt' = IF t \in Workers
              THEN [fmt EXCEPT ![t].committed = hist[t].before]
              ELSE fmt
    /\ UNCHANGED <<lines, formatters, sink, units, cursor, screen, home,
                   hist, ncalls>>

\* Fail with the lock still held when the exception leaves _print.
FailKeepsLock(t) ==
    /\ pc[t] \in {"down", "text", "up", "flush"}
    /\ pc' = [pc EXCEPT ![t] = "idle"]
    /\ call' = [call EXCEPT ![t].raised = TRUE]
    /\ phase' = IF t # Main THEN phase
                ELSE IF phase = "starting" THEN "started" ELSE "ended"
    /\ UNCHANGED <<lines, formatters, lock, fmt, sink, units, cursor, screen,
                   home, hist, ncalls>>

\* A sys.stdout.write or the flush raises inside the with block: nothing of
\* it reaches the stream, the with statement releases the lock, and the
\* exception leaves _print and the formatter call.
Fail(t) ==
    /\ pc[t] \in {"down", "text", "up", "flush"}
    /\ lock' = Free
    /\ pc' = [pc EXCEPT ![t] = "idle"]
    /\ call' = [call EXCEPT ![t].raised = TRUE]
    /\ phase' = IF t # Main THEN phase
                ELSE IF phase = "starting" THEN "started" ELSE "ended"
    /\ UNCHANGED <<lines, formatters, fmt, sink, units, cursor, screen, home,
                   hist, ncalls>>

\* --------------------------------------------------- OutputFormatter
\* CommitText appending every suffix that is not absent, the empty one too.
CommitTextAppendEmpty(committed, s) ==
    IF s # None
    THEN IF Truthy(committed) THEN committed \o <<" ">> \o s ELSE s
    ELSE committed

\* CommitText putting the suffix in front of the committed text.
CommitTextPrepend(committed, s) ==
    IF Truthy(s)
    THEN IF Truthy(committed) THEN s \o <<" ">> \o committed ELSE s
    ELSE committed

\* CommitText forgetting the committed text when no suffix is given.
CommitTextDrop(committed, s) ==
    IF Truthy(s)
    THEN IF Truthy(committed) THEN committed \o <<" ">> \o s ELSE s
    ELSE None

\* CommitText replacing the committed text by the suffix instead of appending.
CommitTextReplace(committed, s) == IF Truthy(s) THEN s ELSE committed

\* commit: the committed text after commit(s).
CommitText(committed, s) ==
    IF Truthy(committed) /\ Truthy(s) THEN committed \o <<" ">> \o s
    ELSE IF ~Truthy(committed) /\ Truthy(s) THEN s
    ELSE committed

\* PendingRenders passing the suffix alone, without the committed text.
PendingRendersSuffixOnly(committed, s) == IF Truthy(s) THEN <<s>> ELSE <<>>

\* pending: the texts pending(s) passes to the printer, in order.
PendingRenders(committed, s) ==
    (IF Truthy(committed) /\ Truthy(s) THEN <<committed \o <<" ">> \o s>> ELSE <<>>)
    \o (IF ~Truthy(committed) /\ Truthy(s) THEN <<s>> ELSE <<>>)

\* ResetText clearing the committed text instead of restoring the prefix.
ResetTextNone(prefix) == None

\* reset: the committed text after reset().
ResetText(prefix) == prefix

\* The formatter call being made, and the one before it.  The call before
\* raised if it made a _print call and that call raised: a pending() that
\* renders nothing makes no _print call and returns normally, and call[w]
\* is then still the _print call of an older formatter call.
Record(w, op, arg, renders) ==
    /\ hist' = [hist EXCEPT ![w] = [op |-> op, arg |-> arg,
                                    before |-> fmt[w].committed,
                                    renders |-> renders,
                                    prevop |-> hist[w].op,
                                    prevarg |-> hist[w].arg,
                                    prevbefore |-> hist[w].before,
                                    prevraised |->
                                        /\ hist[w].renders # <<>>
                                        /\ call[w].raised]]
    /\ ncalls' = [ncalls EXCEPT ![w] = ncalls[w] + 1]

\* commit(s=None)
Commit(w, s) ==
    /\ fmt[w].exists
    /\ LET c == CommitText(fmt[w].committed, s)
       IN  /\ fmt' = [fmt EXCEPT ![w].committed = c]
           /\ EnterPrint(w, c, fmt[w].pos, ncalls[w] + 1)
           /\ Record(w, "commit", s, <<c>>)
    /\ UNCHANGED <<lines, formatters, lock, phase, sink, units, cursor, screen, home>>

\* Pending storing the text it renders as the committed text.
PendingCommits(w, s) ==
    /\ fmt[w].exists
    /\ pc[w] = "idle"
    /\ LET r == PendingRenders(fmt[w].committed, s)
       IN  /\ IF r = <<>>
              THEN UNCHANGED <<pc, call, fmt>>
              ELSE /\ EnterPrint(w, r[1], fmt[w].pos, ncalls[w] + 1)
                   /\ fmt' = [fmt EXCEPT ![w].committed = r[1]]
           /\ Record(w, "pending", s, r)
    /\ UNCHANGED <<lines, formatters, lock, phase, sink, units, cursor, screen, home>>

\* pending(s): at most one of the two tests holds, so at most one _print call.
Pending(w, s) ==
    /\ fmt[w].exists
    /\ pc[w] = "idle"
    /\ LET r == PendingRenders(fmt[w].committed, s)
       IN  /\ IF r = <<>>
              THEN UNCHANGED <<pc, call>>
              ELSE EnterPrint(w, r[1], fmt[w].pos, ncalls[w] + 1)
           /\ Record(w, "pending", s, r)
    /\ UNCHANGED <<lines, formatters, lock, fmt, phase, sink, units, cursor, screen,
                   home>>

\* reset(): self._committed = self._prefix; self.commit()
Reset(w) ==
    /\ fmt[w].exists
    /\ LET c == CommitText(ResetText(fmt[w].prefix), None)
       IN  /\ fmt' = [fmt EXCEPT ![w].committed = c]
           /\ EnterPrint(w, c, fmt[w].pos, ncalls[w] + 1)
           /\ Record(w, "reset", None, <<c>>)
    /\ UNCHANGED <<lines, formatters, lock, phase, sink, units, cursor, screen, home>>

\* One step of a _print call in progress.
PrintStep(t) ==
    \/ Acquire(t)
    \/ WriteDown(t)
    \/ WriteText(t)
    \/ WriteUp(t)
    \/ Release(t)

\* ----------------------------------------------------- specifications
\* The concurrent program.  The main thread issues the formatters top to
\* bottom, one per worker and at distinct positions of the block, before any
\* worker runs;
\* after that the workers, start() and end() run freely.  A worker makes up to
\* MaxRounds calls: commit in any of them, pending or reset as the first.
Next ==
    \/ Start
    \/ End
    \/ \E w \in Workers, pos \in Positions, prefix \in ConcPrefixes :
          /\ \A v \in Workers : ncalls[v] = 0 /\ (v < w <=> fmt[v].exists)
          /\ \A v \in Workers : fmt[v].exists => fmt[v].pos < pos
          /\ pos < lines
          /\ GetFormatter(w, pos, prefix)
    \/ \E w \in Workers, s \in ConcSuffixes :
          ncalls[w] < MaxRounds /\ Commit(w, s)
    \/ \E w \in Workers, s \in ConcSuffixes :
          ncalls[w] = 0 /\ Pending(w, s)
    \/ \E w \in Workers : ncalls[w] = 0 /\ Reset(w)
    \/ \E t \in Threads : PrintStep(t)

Spec == Init /\ [][Next]_vars

\* One caller, one call at a time: start(), a formatter, its calls, end().
Quiet == \A t \in Threads : pc[t] = "idle"

NextSeq ==
    \/ Start
    \/ Quiet /\ End
    \/ \E pos \in Positions, prefix \in Prefixes :
          phase = "started" /\ GetFormatter(1, pos, prefix)
    \/ \E s \in Suffixes :
          Quiet /\ phase = "started" /\ ncalls[1] < MaxCalls /\ Commit(1, s)
    \/ \E s \in Suffixes :
          Quiet /\ phase = "started" /\ ncalls[1] < MaxCalls /\ Pending(1, s)
    \/ Quiet /\ phase = "started" /\ ncalls[1] < MaxCalls /\ Reset(1)
    \/ \E t \in Threads : PrintStep(t)

SpecSeq == Init /\ [][NextSeq]_vars

\* OutputManager(MaxLines): a block of MaxLines lines.
InitBlock == Init /\ lines = MaxLines

\* The life cycle in order, with the workers' calls in any mix: start()
\* returns before the first formatter is issued; formatters are issued top to
\* bottom at distinct positions of the block, also between the workers'
\* calls; the workers make up to MaxCalls calls between them; end() may be
\* called at any time after start().
NextDraw ==
    \/ Start
    \/ End
    \/ \E w \in Workers, pos \in Positions, prefix \in ConcPrefixes :
          /\ phase = "started"
          /\ \A v \in Workers : v < w => fmt[v].exists
          /\ \A v \in Workers : fmt[v].exists => fmt[v].pos < pos
          /\ pos < lines
          /\ GetFormatter(w, pos, prefix)
    \/ \E w \in Workers, s \in ConcSuffixes \cup {None} :
          ncalls[1] + ncalls[2] < MaxCalls /\ Commit(w, s)
    \/ \E w \in Workers, s \in ConcSuffixes :
          ncalls[1] + ncalls[2] < MaxCalls /\ Pending(w, s)
    \/ \E w \in Workers : ncalls[1] + ncalls[2] < MaxCalls /\ Reset(w)
    \/ \E t \in Threads : PrintStep(t)

SpecDraw == InitBlock /\ [][NextDraw]_vars

\* The same program on a stream whose writes may fail in a worker's call:
\* both formatters are issued before the first call and the workers make up
\* to MaxRounds calls between them, pending or reset as a worker's first.
NextFail ==
    \/ Start
    \/ End
    \/ \E w \in Workers, pos \in Positions, prefix \in ConcPrefixes :
          /\ phase = "started"
          /\ \A v \in Workers : ncalls[v] = 0 /\ (v < w <=> fmt[v].exists)
          /\ \A v \in Workers : fmt[v].exists => fmt[v].pos < pos
          /\ pos < lines
          /\ GetFormatter(w, pos, prefix)
    \/ \E w \in Workers, s \in ConcSuffixes \cup {None} :
          ncalls[1] + ncalls[2] < MaxRounds /\ Commit(w, s)
    \/ \E w \in Workers, s \in ConcSuffixes :
          ncalls[1] + ncalls[2] < MaxRounds /\ ncalls[w] = 0 /\ Pending(w, s)
    \/ \E w \in Workers :
          ncalls[1] + ncalls[2] < MaxRounds /\ ncalls[w] = 0 /\ Reset(w)
    \/ \E t \in Threads : PrintStep(t)
    \/ \E w \in Workers : Fail(w)

SpecFail == InitBlock /\ [][NextFail]_vars

\* Every thread contending for the lock at once: start() and end() on the
\* main thread, and one call by each worker, any of which may fail.
NextFair ==
    \/ Start
    \/ End
    \/ \E w \in Workers, pos \in Positions, prefix \in ConcPrefixes :
          /\ phase = "started"
          /\ \A v \in Workers : ncalls[v] = 0 /\ (v < w <=> fmt[v].exists)
          /\ \A v \in Workers : fmt[v].exists => fmt[v].pos < pos
          /\ pos < lines
          /\ GetFormatter(w, pos, prefix)
    \/ \E w \in Workers, s \in ConcSuffixes : ncalls[w] = 0 /\ Commit(w, s)
    \/ \E w \in Workers, s \in ConcSuffixes : ncalls[w] = 0 /\ Pending(w, s)
    \/ \E w \in Workers : ncalls[w] = 0 /\ Reset(w)
    \/ \E t \in Threads : PrintStep(t)
    \/ \E w \in Workers : Fail(w)

\* The lock is granted fairly (a thread that keeps finding it free gets it)
\* and the stream does not stall: a thread inside the with block goes on to
\* its next write, to the flush and the release, or to an exception.
Fairness ==
    \A t \in Threads :
       /\ SF_vars(Acquire(t))
       /\ WF_vars(WriteDown(t) \/ WriteText(t) \/ WriteUp(t) \/ Release(t)
                  \/ Fail(t))

SpecFair == InitBlock /\ [][NextFair]_vars /\ Fairness

\* ------------------------------------------------------------- claims
\* Raw writes i and j of the sink belong to the same _print call.
SameUnit(i, j) == sink[i].by = sink[j].by /\ sink[i].n = sink[j].n

\* Everything call n of thread t wrote, concatenated in the order written.
RECURSIVE UnitFrom(_, _, _)
UnitFrom(t, n, i) ==
    IF i > Len(sink) THEN <<>>
    ELSE (IF sink[i].by = t /\ sink[i].n = n THEN sink[i].data ELSE <<>>)
         \o UnitFrom(t, n, i + 1)

UnitData(t, n) == UnitFrom(t, n, 1)

\* The threads inside the raw-write section of _print.
InSection == {t \in Threads : pc[t] \in {"down", "text", "up", "flush"}}

\* C1: the raw writes at the sink are a concatenation of whole units, move
\* down / text / move up (or the text alone at position 0): once a raw write
\* of another call follows a raw write of a call, no later raw write belongs
\* to that call; a move down is followed at once by its text, and that text
\* by its move up.
C1_UnitsNotInterleaved ==
    /\ \A i \in 1..(Len(sink) - 1) :
          ~SameUnit(i, i + 1)
             => \A k \in (i + 2)..Len(sink) : ~SameUnit(i, k)
    /\ \A i \in 1..Len(sink) :
          /\ sink[i].kind = "down" /\ i < Len(sink)
                => SameUnit(i, i + 1) /\ sink[i + 1].kind = "text"
          /\ sink[i].kind = "text" /\ i > 1 /\ i < Len(sink)
             /\ sink[i - 1].kind = "down"
                => SameUnit(i, i + 1) /\ sink[i + 1].kind = "up"
          /\ sink[i].kind = "up"
                => i > 2 /\ SameUnit(i - 1, i) /\ sink[i - 1].kind = "text"
                         /\ SameUnit(i - 2, i) /\ sink[i - 2].kind = "down"

\* Both workers, at distinct positions below the home row, are in their second
\* commit: worker 2 is inside its unit, worker 1 waits for the lock, and a
\* whole unit of each is already at the sink.
C1_Witness ==
    /\ fmt[1].exists /\ fmt[2].exists
    /\ fmt[1].pos > 0 /\ fmt[2].pos > fmt[1].pos
    /\ hist[1].op = "commit" /\ hist[1].prevop = "commit"
    /\ hist[2].op = "commit" /\ hist[2].prevop = "commit"
    /\ pc[1] = "acquire" /\ pc[2] = "up" /\ lock = 2
    /\ \E i, j \in 1..Len(sink) :
          /\ sink[i].by = 1 /\ sink[i].n = 1 /\ sink[i].kind = "up"
          /\ sink[j].by = 2 /\ sink[j].n = 1 /\ sink[j].kind = "up"

\* C2: while the block is reserved and the lock is free the cursor is on the
\* home row, and every text a worker at an in-range position P wrote while the
\* block was reserved was written with the cursor P rows below the home row.
C2_CursorHomeAndRow ==
    /\ Reserved /\ lock = Free => cursor = home
    /\ \A i \in 1..Len(sink) :
          sink[i].by \in Workers /\ sink[i].kind = "text" /\ sink[i].reserved
          /\ fmt[sink[i].by].pos < lines
             => sink[i].row = home + fmt[sink[i].by].pos

\* Two workers at distinct in-range positions have each written a text while
\* the block was reserved, and the lock is free again.
C2_Witness ==
    /\ Reserved /\ lock = Free
    /\ fmt[1].exists /\ fmt[2].exists
    /\ fmt[1].pos < fmt[2].pos /\ fmt[2].pos < lines
    /\ \E i, j \in 1..Len(sink) :
          /\ sink[i].by = 1 /\ sink[i].kind = "text" /\ sink[i].reserved
          /\ sink[j].by = 2 /\ sink[j].kind = "text" /\ sink[j].reserved
          /\ sink[j].row = home + fmt[2].pos

\* C9: every raw write is made by the thread that holds the lock, at most one
\* thread is inside the raw-write section and it is the holder, and the raw
\* writes are at the sink in the order the lock was acquired.
C9_WritesUnderLock ==
    /\ \A i \in 1..Len(sink) : sink[i].held = sink[i].by /\ sink[i].acq >= 1
    /\ Cardinality(InSection) <= 1
    /\ \A t \in InSection : lock = t
    /\ \A i \in 1..(Len(sink) - 1) : sink[i].acq <= sink[i + 1].acq

\* start() is inside the raw-write section, having written its text, while
\* both workers, one of them in a pending call, wait for the lock.
C9_Witness ==
    /\ phase = "starting" /\ pc[Main] = "flush" /\ lock = Main
    /\ pc[1] = "acquire" /\ pc[2] = "acquire"
    /\ hist[1].op = "pending" /\ hist[2].op \in {"commit", "reset"}
    /\ Len(sink) >= 1 /\ sink[Len(sink)].by = Main

\* The texts call n of thread t wrote (its raw writes of kind "text").
UnitTexts(t, n) ==
    SelectSeq(sink, LAMBDA e : e.by = t /\ e.n = n /\ e.kind = "text")

\* What _print writes for the text s: carriage return, the text, clear to the
\* end of the line, carriage return.
Rendered(s) == <<CR>> \o Format(s) \o <<ESC, "[", "K">> \o <<CR>>

\* The worker's last call has returned and its one text at the sink renders s.
RenderedOnce(w, s) ==
    pc[w] = "idle"
       => /\ Len(UnitTexts(w, ncalls[w])) = 1
          /\ UnitTexts(w, ncalls[w])[1].data = Rendered(s)

\* C3: commit(s) with a non-empty s leaves the committed text "<committed> <s>"
\* when there was committed text (absent and empty both count as none), else
\* s, and renders that new committed text exactly once.
C3_CommitAppends ==
    \A w \in Workers :
       hist[w].op = "commit" /\ hist[w].arg # None /\ hist[w].arg # <<>>
          => /\ fmt[w].committed =
                   IF hist[w].before # None /\ hist[w].before # <<>>
                   THEN hist[w].before \o <<" ">> \o hist[w].arg
                   ELSE hist[w].arg
             /\ hist[w].renders = <<fmt[w].committed>>
             /\ RenderedOnce(w, fmt[w].committed)

\* Prefix "a", commit("x"), commit("x"): the second commit has rendered
\* "a x x" and returned.
C3_Witness ==
    /\ fmt[1].exists /\ fmt[1].prefix = <<"a">>
    /\ hist[1].op = "commit" /\ hist[1].arg = <<"x">>
    /\ hist[1].prevop = "commit" /\ hist[1].before = <<"a", " ", "x">>
    /\ fmt[1].committed = <<"a", " ", "x", " ", "x">>
    /\ pc[1] = "idle"
    /\ UnitData(1, 2) = <<CR, "a", " ", "x", " ", "x", ESC, "[", "K", CR>>

\* C4: a pending call leaves the committed text and the prefix as they were,
\* and a commit with no suffix right after a pending call renders the text
\* that was committed before the pending call.
C4_PendingKeepsCommitted ==
    /\ [][\A w \in Workers :
            ncalls'[w] = ncalls[w] + 1 /\ hist'[w].op = "pending"
               => /\ fmt'[w].committed = fmt[w].committed
                  /\ fmt'[w].prefix = fmt[w].prefix]_vars
    /\ [](\A w \in Workers :
            hist[w].op = "commit" /\ ~Truthy(hist[w].arg)
            /\ hist[w].prevop = "pending"
               => /\ hist[w].renders = <<hist[w].prevbefore>>
                  /\ fmt[w].committed = hist[w].prevbefore)

\* Prefix "a", pending("x") rendered "a x", then commit() has rendered "a".
C4_Witness ==
    /\ fmt[1].exists /\ fmt[1].prefix = <<"a">>
    /\ hist[1].op = "commit" /\ hist[1].arg = None
    /\ hist[1].prevop = "pending" /\ hist[1].prevarg = <<"x">>
    /\ hist[1].prevbefore = <<"a">>
    /\ pc[1] = "idle"
    /\ UnitData(1, 1) = <<CR, "a", " ", "x", ESC, "[", "K", CR>>
    /\ UnitData(1, 2) = <<CR, "a", ESC, "[", "K", CR>>

\* C5: reset() leaves the committed text equal to the prefix and renders the
\* prefix once, whatever was committed before; a commit with no suffix right
\* after it renders the prefix again.
C5_ResetRestoresPrefix ==
    \A w \in Workers :
       /\ hist[w].op = "reset"
             => /\ fmt[w].committed = fmt[w].prefix
                /\ hist[w].renders = <<fmt[w].prefix>>
                /\ RenderedOnce(w, fmt[w].prefix)
       /\ hist[w].op = "commit" /\ ~Truthy(hist[w].arg)
          /\ hist[w].prevop = "reset"
             => /\ hist[w].renders = <<fmt[w].prefix>>
                /\ RenderedOnce(w, fmt[w].prefix)

\* Prefix "a", commit("x"), reset(), commit(): the last call has rendered "a".
C5_Witness ==
    /\ fmt[1].exists /\ fmt[1].prefix = <<"a">>
    /\ hist[1].op = "commit" /\ hist[1].arg = None
    /\ hist[1].prevop = "reset" /\ hist[1].prevbefore = <<"a", " ", "x">>
    /\ pc[1] = "idle"
    /\ UnitData(1, 3) = <<CR, "a", ESC, "[", "K", CR>>

\* start() and then end() have run with no other write in between.
StartThenEnd ==
    /\ phase = "ended"
    /\ Len(sink) = 2
    /\ sink[1].by = Main /\ sink[2].by = Main

\* C6 as claimed: after start() and then end() with no write in between the
\* cursor is on the row it started on.
C6_Original == StartThenEnd => cursor = 0

\* C6: after start() and then end() with no write in between the cursor is
\* lines rows below the row it started on: the blank lines moved it down, and
\* the two cursor movements, up from the bottom of the block to the home row
\* and down again, cancel.
C6_EndsBelowBlock ==
    StartThenEnd
       => /\ cursor = lines
          /\ sink[1].row = 0
          /\ sink[2].row = home
          /\ RowDelta(sink[1].data) = home
          /\ home + RowDelta(sink[2].data) = lines

\* A block of 3 lines: start() then end() left the cursor 3 rows down.
C6_Witness == StartThenEnd /\ lines = 3 /\ cursor = 3 /\ home = 0

\* The worker's last _print call has written everything.
WriteDone(w) == fmt[w].exists /\ call[w].n >= 1 /\ pc[w] \in {"flush", "idle"}

\* C7 as claimed: a write at position P emits move down P, carriage return,
\* text, clear to end of line, move up P (no movement at P = 0), nothing else.
C7_Original ==
    \A w \in Workers :
       WriteDone(w)
          => UnitData(w, call[w].n) =
                (IF call[w].pos # 0
                 THEN <<ESC, "[">> \o Str(call[w].pos) \o <<"B">> ELSE <<>>)
                \o <<CR>> \o Format(call[w].s) \o <<ESC, "[", "K">>
                \o (IF call[w].pos # 0
                    THEN <<ESC, "[">> \o Str(call[w].pos) \o <<"A">> ELSE <<>>)

\* C7: a write at position P emits move down P, carriage return, text, clear
\* to end of line, a second carriage return, move up P (no movement at
\* P = 0), nothing else; an absent text is emitted as the word None.
C7_WriteSequence ==
    \A w \in Workers :
       WriteDone(w)
          => UnitData(w, call[w].n) =
                (IF call[w].pos # 0
                 THEN <<ESC, "[">> \o Str(call[w].pos) \o <<"B">> ELSE <<>>)
                \o <<CR>> \o Format(call[w].s) \o <<ESC, "[", "K">> \o <<CR>>
                \o (IF call[w].pos # 0
                    THEN <<ESC, "[">> \o Str(call[w].pos) \o <<"A">> ELSE <<>>)

\* A commit at position 2 has written its whole sequence for the text "a x".
C7_Witness ==
    /\ WriteDone(1) /\ call[1].pos = 2 /\ call[1].s = <<"a", " ", "x">>
    /\ UnitData(1, call[1].n) =
          <<ESC, "[", "2", "B", CR, "a", " ", "x", ESC, "[", "K", CR,
            ESC, "[", "2", "A">>

\* C8 as claimed: start() emits lines newlines and move up lines, end() emits
\* move down lines, and neither emits anything else.
C8_Original ==
    /\ phase \in {"started", "ending", "ended"}
          => UnitData(Main, 1) =
                [i \in 1..lines |-> LF] \o <<ESC, "[">> \o Str(lines) \o <<"A">>
    /\ phase = "ended"
          => UnitData(Main, 2) = <<ESC, "[">> \o Str(lines) \o <<"B">>

\* C8: start() emits a carriage return, lines newlines, move up lines, clear
\* to end of line and a carriage return; end() emits a carriage return, move
\* down lines, clear to end of line and a carriage return.
C8_StartEndSequences ==
    /\ phase \in {"started", "ending", "ended"}
          => UnitData(Main, 1) =
                <<CR>> \o [i \in 1..lines |-> LF]
                \o <<ESC, "[">> \o Str(lines) \o <<"A">>
                \o <<ESC, "[", "K", CR>>
    /\ phase = "ended"
          => UnitData(Main, 2) =
                <<CR, ESC, "[">> \o Str(lines) \o <<"B">>
                \o <<ESC, "[", "K", CR>>

\* A block of 2 lines: start() and end() have both written.
C8_Witness ==
    /\ phase = "ended" /\ lines = 2
    /\ UnitData(Main, 1) = <<CR, LF, LF, ESC, "[", "2", "A", ESC, "[", "K", CR>>
    /\ UnitData(Main, 2) = <<CR, ESC, "[", "2", "B", ESC, "[", "K", CR>>

\* C10 as claimed: every pending(s) renders once, "<committed> <s>" when there
\* is committed text and s otherwise, whatever s is.
C10_Original ==
    \A w \in Workers :
       hist[w].op = "pending"
          => /\ Len(hist[w].renders) = 1
             /\ hist[w].renders[1] =
                   IF hist[w].before # None /\ hist[w].before # <<>>
                   THEN hist[w].before \o <<" ">> \o hist[w].arg
                   ELSE hist[w].arg

\* C10: pending(s) with a non-empty s renders once, "<committed> <s>" when
\* there is committed text (absent and empty both count as none) and s
\* otherwise; pending(s) with an absent or empty s renders nothing.
C10_PendingRenders ==
    \A w \in Workers :
       hist[w].op = "pending"
          => IF hist[w].arg # None /\ hist[w].arg # <<>>
             THEN LET text == IF hist[w].before # None /\ hist[w].before # <<>>
                              THEN hist[w].before \o <<" ">> \o hist[w].arg
                              ELSE hist[w].arg
                  IN  /\ hist[w].renders = <<text>>
                      /\ RenderedOnce(w, text)
             ELSE /\ hist[w].renders = <<>>
                  /\ pc[w] = "idle"
                  /\ UnitData(w, ncalls[w]) = <<>>

\* Prefix "a", commit("x"), pending("x"): the pending call has rendered
\* "a x x" and the committed text is still "a x".
C10_Witness ==
    /\ fmt[1].exists /\ fmt[1].prefix = <<"a">>
    /\ hist[1].op = "pending" /\ hist[1].arg = <<"x">>
    /\ hist[1].before = <<"a", " ", "x">>
    /\ fmt[1].committed = <<"a", " ", "x">>
    /\ pc[1] = "idle"
    /\ UnitData(1, 2) = <<CR, "a", " ", "x", " ", "x", ESC, "[", "K", CR>>

\* C11: commit() and commit("") do the same: the committed text stays as it
\* was and that text is passed to the printer and rendered once, so on a fresh
\* formatter the prefix is rendered, and a commit with no suffix after any
\* number of them renders the same text again.
C11_EmptyLikeAbsent ==
    \A w \in Workers :
       hist[w].op = "commit" /\ hist[w].arg \in {None, <<>>}
          => /\ fmt[w].committed = hist[w].before
             /\ hist[w].renders = <<hist[w].before>>
             /\ RenderedOnce(w, hist[w].before)
             /\ hist[w].prevop = "none" => hist[w].before = fmt[w].prefix
             /\ hist[w].prevop = "commit" /\ hist[w].prevarg \in {None, <<>>}
                   => hist[w].before = hist[w].prevbefore

\* Prefix "a": commit() on the fresh formatter, then commit(""), have both
\* rendered "a".
C11_Witness ==
    /\ fmt[1].exists /\ fmt[1].prefix = <<"a">>
    /\ ncalls[1] = 2 /\ pc[1] = "idle"
    /\ hist[1].prevop = "commit" /\ hist[1].prevarg = None
    /\ hist[1].op = "commit" /\ hist[1].arg = <<>>
    /\ UnitData(1, 1) = <<CR, "a", ESC, "[", "K", CR>>
    /\ UnitData(1, 2) = <<CR, "a", ESC, "[", "K", CR>>

\* a is a leading part of b; of an absent text there is nothing to keep.
LeadingPart(a, b) ==
    a = None \/ (b # None /\ Len(a) <= Len(b) /\ SubSeq(b, 1, Len(a)) = a)

\* C14: a commit or pending call never shortens or rewrites the committed
\* text: the committed text before the call is a leading part of the committed
\* text after it.
C14_CommittedGrows ==
    \A w \in Workers :
       hist[w].op \in {"commit", "pending"}
          => LeadingPart(hist[w].before, fmt[w].committed)

\* Prefix "a", commit("x"), commit("x"): "a x" has grown to "a x x".
C14_Witness ==
    /\ fmt[1].exists /\ fmt[1].prefix = <<"a">>
    /\ hist[1].op = "commit" /\ hist[1].arg = <<"x">>
    /\ hist[1].before = <<"a", " ", "x">>
    /\ fmt[1].committed = <<"a", " ", "x", " ", "x">>
    /\ pc[1] = "idle"

\* C15: after a commit the committed text is not absent if the prefix or the
\* suffix of that commit was non-empty.
C15_CommittedDefined ==
    \A w \in Workers :
       hist[w].op = "commit" /\ (Truthy(fmt[w].prefix) \/ Truthy(hist[w].arg))
          => fmt[w].committed # None

\* No prefix, commit("x"): the committed text, absent before, is "x".
C15_Witness ==
    /\ fmt[1].exists /\ fmt[1].prefix = None
    /\ hist[1].op = "commit" /\ hist[1].arg = <<"x">>
    /\ hist[1].before = None
    /\ fmt[1].committed = <<"x">>
    /\ pc[1] = "idle"

\* C18: every text a formatter call passes to its printer is a string, never
\* None, whatever the prefix and the calls made.
C18_Original ==
    \A w \in Workers :
       \A i \in DOMAIN hist[w].renders : hist[w].renders[i] # None

\* The row of the screen that belongs to worker w's formatter.
RowFor(w) == home + fmt[w].pos

\* Worker w's last write has completed, inside the block and while the block
\* was reserved.
DrawDone(w) ==
    /\ WriteDone(w)
    /\ fmt[w].pos < lines
    /\ Len(UnitTexts(w, call[w].n)) = 1
    /\ UnitTexts(w, call[w].n)[1].reserved

\* C13: once a formatter's write has completed, its row of the block shows
\* exactly the text of that write, nothing of a longer text shown there
\* before; and a write by a worker changes no row but that worker's own,
\* however the workers at distinct positions of the block interleave.
C13_RowShowsLastWrite ==
    /\ [](\A w \in Workers :
            DrawDone(w) => RowOf(screen, RowFor(w)) = Format(call[w].s))
    /\ [][\A w \in Workers :
            (/\ Len(sink') = Len(sink) + 1
             /\ sink'[Len(sink')].by = w
             /\ sink'[Len(sink')].reserved
             /\ fmt[w].pos < lines)
               => \A r \in (DOMAIN screen) \cup (DOMAIN screen') :
                     r # RowFor(w) => RowOf(screen', r) = RowOf(screen, r)]_vars

\* Worker 1 on row 1 and worker 2 on row 2 of a block of three lines: worker 1
\* rendered "a x" by commit("x") and then "a" by reset(), worker 2 rendered
\* "a x" in between; row 1 shows "a" and row 2 still shows "a x".
C13_Witness ==
    /\ lines = 3 /\ home = 0
    /\ fmt[1].exists /\ fmt[1].pos = 1 /\ fmt[2].exists /\ fmt[2].pos = 2
    /\ DrawDone(1) /\ DrawDone(2)
    /\ hist[1].op = "reset" /\ hist[1].prevop = "commit"
    /\ UnitTexts(1, 1)[1].data = Rendered(<<"a", " ", "x">>)
    /\ UnitTexts(1, 2)[1].data = Rendered(<<"a">>)
    /\ UnitTexts(2, 1)[1].data = Rendered(<<"a", " ", "x">>)
    /\ UnitTexts(1, 1)[1].acq < UnitTexts(2, 1)[1].acq
    /\ UnitTexts(2, 1)[1].acq < UnitTexts(1, 2)[1].acq
    /\ RowOf(screen, 1) = <<"a">>
    /\ RowOf(screen, 2) = <<"a", " ", "x">>

\* C16: a call on one formatter changes nothing of any other formatter;
\* get_formatter for a new position changes nothing of the formatters issued
\* before nor the positions they hold; a formatter's prefix and position
\* never change once it is issued, and its committed text changes only in a
\* commit or reset call on that formatter.
C16_FormattersApart ==
    [][\A w \in Workers :
          /\ (ncalls'[w] # ncalls[w] \/ fmt'[w].exists # fmt[w].exists)
                => /\ \A u \in Workers \ {w} : fmt'[u] = fmt[u]
                   /\ \A p \in Positions :
                         formatters[p] # 0 => formatters'[p] = formatters[p]
          /\ fmt[w].exists
                => /\ fmt'[w].exists
                   /\ fmt'[w].prefix = fmt[w].prefix
                   /\ fmt'[w].pos = fmt[w].pos
                   /\ fmt'[w].committed # fmt[w].committed
                         => /\ ncalls'[w] = ncalls[w] + 1
                            /\ hist'[w].op \in {"commit", "reset"}]_vars

\* Worker 1 on row 0 has committed "x" once and worker 2 on row 1 twice: each
\* formatter holds its own committed text, its prefix and its position.
C16_Witness ==
    /\ fmt[1].exists /\ fmt[1].pos = 0 /\ fmt[1].prefix = <<"a">>
    /\ fmt[2].exists /\ fmt[2].pos = 1 /\ fmt[2].prefix = <<"a">>
    /\ formatters[0] = 1 /\ formatters[1] = 2
    /\ ncalls[1] = 1 /\ hist[1].op = "commit" /\ hist[1].arg = <<"x">>
    /\ ncalls[2] = 2 /\ hist[2].op = "commit" /\ hist[2].arg = <<"x">>
    /\ hist[2].prevop = "commit" /\ hist[2].prevarg = <<"x">>
    /\ fmt[1].committed = <<"a", " ", "x">>
    /\ fmt[2].committed = <<"a", " ", "x", " ", "x">>
    /\ Quiet

\* C12: a write that fails in one worker's call leaves the others as they
\* were: the failed call does not keep the lock, and every write that another
\* worker at a position of the reserved block completes after the failure
\* lands on that worker's own row.
C12_Original ==
    \A u \in Workers : \A w \in Workers \ {u} :
       call[u].raised
          => /\ lock # u
             /\ (/\ fmt[w].exists /\ fmt[w].pos < lines
                 /\ call[w].acq > call[u].acq
                 /\ Len(UnitTexts(w, call[w].n)) = 1
                 /\ UnitTexts(w, call[w].n)[1].reserved)
                   => UnitTexts(w, call[w].n)[1].row = RowFor(w)

\* Text c ends with the suffix s.
EndsWith(c, s) ==
    c # None /\ Len(s) <= Len(c) /\ SubSeq(c, Len(c) - Len(s) + 1, Len(c)) = s

\* C19: commit(s) with a non-empty s has put s into the committed text before
\* it takes the lock; the committed text keeps s when the render raises; and
\* a commit() that succeeds after the failed one renders that committed text,
\* s included.
C19_CommittedBeforeRender ==
    \A w \in Workers :
       /\ (hist[w].op = "commit" /\ Truthy(hist[w].arg)
           /\ (pc[w] = "acquire" \/ call[w].raised))
             => /\ EndsWith(fmt[w].committed, hist[w].arg)
                /\ LeadingPart(hist[w].before, fmt[w].committed)
       /\ (hist[w].op = "commit" /\ ~Truthy(hist[w].arg)
           /\ hist[w].prevop = "commit" /\ Truthy(hist[w].prevarg)
           /\ hist[w].prevraised
           /\ pc[w] = "idle" /\ ~call[w].raised)
             => /\ EndsWith(hist[w].before, hist[w].prevarg)
                /\ LeadingPart(hist[w].prevbefore, hist[w].before)
                /\ Len(UnitTexts(w, ncalls[w])) = 1
                /\ UnitTexts(w, ncalls[w])[1].data = Rendered(hist[w].before)

\* Prefix "a": commit("x") raised before its text was written, then commit()
\* has rendered "a x".
C19_Witness ==
    /\ fmt[1].exists /\ fmt[1].prefix = <<"a">>
    /\ ncalls[1] = 2
    /\ hist[1].prevop = "commit" /\ hist[1].prevarg = <<"x">>
    /\ hist[1].prevraised
    /\ hist[1].op = "commit" /\ hist[1].arg = None
    /\ pc[1] = "idle" /\ ~call[1].raised
    /\ UnitTexts(1, 1) = <<>>
    /\ UnitTexts(1, 2)[1].data = <<CR, "a", " ", "x", ESC, "[", "K", CR>>

\* C17: a thread holds the lock only inside the with block: it has released
\* it when its call has returned or raised, and it does not hold it when it
\* goes to acquire it; and, the lock being fair and the stream not stalling,
\* every call in progress (start, end, commit, pending, reset) returns or
\* raises, so no thread waits for ever.
C17_CallsReturn ==
    /\ [](\A t \in Threads : pc[t] \in {"idle", "acquire"} => lock # t)
    /\ \A t \in Threads : (pc[t] # "idle") ~> (pc[t] = "idle")

\* Worker 1's call raised, worker 2's call took the lock after it and
\* returned, and end() took the lock after both and returned.
C17_Witness ==
    /\ call[1].raised /\ ~call[2].raised
    /\ call[1].acq >= 1
    /\ call[2].acq > call[1].acq
    /\ phase = "ended" /\ call[Main].acq > call[2].acq
    /\ Quiet /\ lock = Free

====
